---- MODULE Spec2Model ----
(***************************************************************************)
(* Sublime-AutoSetIndentation: the "auto_set_indentation" text command.    *)
(* The command resolves the indentation of a view from the .editorconfig   *)
(* of its file, from the IndentFinder verdict on a sample of the buffer,   *)
(* from the makefile special case and from the "default_indentation"       *)
(* setting, and records the contributing sources in the view setting       *)
(* "ASI_result_sources".                                                   *)
(*                                                                         *)
(* Strings the code only compares are TLA+ strings; strings the code takes *)
(* apart (lower(), startswith()) are sequences of characters; the string   *)
(* printed by IndentFinder is a sequence of its blank-separated words.     *)
(***************************************************************************)
EXTENDS Integers, Sequences, FiniteSets, TLC

\* ------------------------------------------------------------------ bounds
\* Largest indentation width an .editorconfig or IndentFinder reports.
MaxWidth == 2
\* Number of command invocations in one behaviour (over all threads).
MaxCalls == 3

\* ------------------------------------------------------- values and strings
Indentation(t, s) == [type |-> t, size |-> s]

INDENTATION_UNKNOWN == Indentation("unknown", -1)

\* Python's None, as returned by options.get() for an absent key.
None == "<None>"

\* str(n) for the integers that occur as text.
StrOfInt(n) ==
    CASE n = -2 -> "-2" [] n = -1 -> "-1" [] n = 0 -> "0" [] n = 1 -> "1"
      [] n = 2 -> "2" [] n = 3 -> "3" [] n = 4 -> "4" [] n = 5 -> "5"
      [] n = 6 -> "6" [] n = 7 -> "7" [] n = 8 -> "8" [] n = 9 -> "9"

IntTexts == -2 .. 9

\* int(s) succeeds exactly on the decimal texts.
IsIntText(s) == \E n \in IntTexts : StrOfInt(n) = s

IntOfStr(s) == CHOOSE n \in IntTexts : StrOfInt(n) = s

\* [0-9]+ of the regular expressions: an unsigned decimal text.
IsDigits(s) == \E n \in 0 .. 9 : StrOfInt(n) = s

\* str.lower() on the characters that occur.
LowerChar(c) ==
    CASE c = "T" -> "t" [] c = "A" -> "a" [] c = "B" -> "b" [] c = "S" -> "s"
      [] c = "P" -> "p" [] c = "C" -> "c" [] c = "E" -> "e" [] OTHER -> c

Lower(s) == [i \in DOMAIN s |-> LowerChar(s[i])]

StartsWith(s, prefix) ==
    /\ Len(s) >= Len(prefix)
    /\ SubSeq(s, 1, Len(prefix)) = prefix

TabChars == <<"t", "a", "b">>

SpaceChars == <<"s", "p", "a", "c", "e">>

\* ------------------------------------------------------------ input domains
Widths == 1 .. MaxWidth

\* Values of the "indent_style" property.
IndentStyles == {None, "tab", "space"}

\* Values of the "indent_size" property: absent, the word "tab", or a number.
IndentSizes == {None, "tab"} \cup {StrOfInt(n) : n \in -2 .. MaxWidth}

\* What editorconfig.get_properties gives: an EditorConfigError or options.
EditorConfigOutcomes ==
    {[error |-> TRUE, indent_style |-> None, indent_size |-> None]}
    \cup {[error |-> FALSE, indent_style |-> t, indent_size |-> z] :
              t \in IndentStyles, z \in IndentSizes}

\* What str(indent_finder) prints for the sample of the buffer.
FinderResults ==
    {<<"unknown", "-1">>}
    \cup {<<"tab", StrOfInt(w)>> : w \in Widths}
    \cup {<<"space", StrOfInt(w)>> : w \in Widths}
    \cup {<<"mixed", "tab", StrOfInt(t), "space", StrOfInt(s)>> :
              t \in Widths, s \in Widths}

\* Values of the "default_indentation" setting: two valid ones, one with an
\* unrecognized type and one with a size that is not positive.
DefaultIndentations ==
    {<<<<"T", "a", "b", "s">>, 8>>,
     <<SpaceChars, 8>>,
     <<<<"u", "n", "k", "n", "o", "w", "n">>, 8>>,
     <<SpaceChars, 0>>}

\* The threads that run the command: the main thread and the async thread.
Threads == {1, 2}

\* A run in which only one thread issues commands.
SingleThread == {1}

\* --------------------------------------------------------- pure functions
\* The value reset_ASI_result_sources_for_view writes.
ResetSourcesMutant(current) == current

reset_ASI_result_sources(current) == <<>>

\* The value add_ASI_result_sources_for_view writes, from the list it read.
add_ASI_result_sources(current, sources) == current \o sources

MergeMutant(base, spare) ==
    Indentation(IF spare.type = INDENTATION_UNKNOWN.type THEN base.type ELSE spare.type,
                IF spare.size = INDENTATION_UNKNOWN.size THEN base.size ELSE spare.size)

merge_indentation_tuples(base, spare) ==
    Indentation(IF base.type = INDENTATION_UNKNOWN.type THEN spare.type ELSE base.type,
                IF base.size = INDENTATION_UNKNOWN.size THEN spare.size ELSE base.size)

\* get_indentation_from_editorconfig, from the file name of the view and
\* the outcome of editorconfig.get_properties for it.
get_indentation_from_editorconfig(path, outcome) ==
    IF path = "" THEN INDENTATION_UNKNOWN
    ELSE IF outcome.error THEN INDENTATION_UNKNOWN
    ELSE LET indent_style == IF outcome.indent_style # "space" /\ outcome.indent_style # "tab"
                             THEN INDENTATION_UNKNOWN.type
                             ELSE outcome.indent_style
             indent_size == IF IsIntText(outcome.indent_size)
                            THEN IntOfStr(outcome.indent_size)
                            ELSE INDENTATION_UNKNOWN.size
         IN  IF indent_style = "space" \/ indent_style = "tab"
             THEN Indentation(indent_style, indent_size)
             ELSE INDENTATION_UNKNOWN

\* re.search(r"\b<word>\s+(?P<size>[0-9]+)", finder_result): the number after
\* the first occurrence of the word that a number follows, 0 without a match.
FinderSize(words, word) ==
    LET hits == {i \in 1 .. Len(words) - 1 : words[i] = word /\ IsDigits(words[i + 1])}
    IN  IF hits = {} THEN 0
        ELSE IntOfStr(words[(CHOOSE i \in hits : \A j \in hits : i <= j) + 1])

guess_indentation_from_string(finder_result) ==
    IF finder_result = <<INDENTATION_UNKNOWN.type, StrOfInt(INDENTATION_UNKNOWN.size)>>
    THEN INDENTATION_UNKNOWN
    ELSE LET indent_tab == FinderSize(finder_result, "tab")
             indent_space == FinderSize(finder_result, "space")
             after_tab == IF indent_tab > 0
                          THEN Indentation("tab", indent_tab)
                          ELSE INDENTATION_UNKNOWN
         IN  IF indent_space > 0
             THEN Indentation("space", indent_space)
             ELSE after_tab

\* The test of get_indentation_for_view: .editorconfig provides everything.
FullySpecifiedMutant(indentation) ==
    /\ indentation.type # INDENTATION_UNKNOWN.type
    /\ indentation.size > 0

FullySpecified(indentation) ==
    /\ indentation.type # INDENTATION_UNKNOWN.type
    /\ indentation.size # INDENTATION_UNKNOWN.size

\* The test of run: unable to determine, use the default settings.
UndeterminedMutant(indent) ==
    indent.type = INDENTATION_UNKNOWN.type \/ indent.size < 0

Undetermined(indent) ==
    indent.type = INDENTATION_UNKNOWN.type \/ indent.size <= 0

\* indent_size of special_indentation_cases.
SpecialIndentSize(indent, default_indentation) ==
    IF indent.size >= 0 THEN indent.size ELSE default_indentation[2]

\* ------------------------------------------------------------------- state
VARIABLES
    file_name,                \* view.file_name(): "" for a new buffer
    editorconfig_outcome,     \* what editorconfig.get_properties(file_name) gives
    finder_result,            \* what IndentFinder prints for the sample
    is_makefile,              \* view.match_selector(0, "source.makefile")
    default_indentation,      \* get_setting("default_indentation")
    translate_tabs_to_spaces, \* view setting
    tab_size,                 \* view setting
    ASI_result_sources,       \* view setting
    pc,                       \* position of each thread in run
    read_sources,             \* the list add_ASI_result_sources_for_view has read
    indentation_editorconfig, \* local of get_indentation_for_view
    indentation_guessed,      \* local of get_indentation_for_view
    indent,                   \* local of run
    scans,                    \* number of sample scans of the current call
    recorded,                 \* labels the current call has passed to add_ASI_...
    message,                  \* the status message of the current call
    calls,                    \* number of calls each thread has started
    fresh,                    \* the inputs are those of the last started call
    repeated,                 \* the current call has the inputs of the one before
    previous                  \* what the call before the current one left

env == <<file_name, editorconfig_outcome, finder_result, is_makefile, default_indentation>>

view_settings == <<translate_tabs_to_spaces, tab_size, ASI_result_sources>>

locals == <<read_sources, indentation_editorconfig, indentation_guessed, indent,
            scans, recorded, message>>

vars == <<env, view_settings, pc, locals, calls, fresh, repeated, previous>>

NoMessage == [text |-> "none", type |-> <<>>, size |-> 0, by |-> <<>>]

\* "Indentation: tab/{} (by {})" and "Indentation: space/{} (by {})".
MessageBy(type, size, sources) ==
    [text |-> "by", type |-> type, size |-> size, by |-> sources]

\* "Indentation: {}/{} (default)".
MessageDefault(type, size) ==
    [text |-> "default", type |-> type, size |-> size, by |-> <<>>]

\* What a call leaves behind: the view settings and the status message.
Outcome(p) ==
    [translate_tabs_to_spaces |-> translate_tabs_to_spaces,
     tab_size |-> tab_size,
     ASI_result_sources |-> ASI_result_sources,
     message |-> message[p]]

TotalCalls == calls[1] + calls[2]

Init ==
    /\ file_name \in {"", "file"}
    /\ editorconfig_outcome \in EditorConfigOutcomes
    /\ file_name = "" => editorconfig_outcome.error
    /\ finder_result \in FinderResults
    /\ is_makefile \in BOOLEAN
    /\ default_indentation \in DefaultIndentations
    /\ translate_tabs_to_spaces = FALSE
    /\ tab_size = 4
    /\ ASI_result_sources = <<>>
    /\ pc = [p \in Threads |-> "idle"]
    /\ read_sources = [p \in Threads |-> <<>>]
    /\ indentation_editorconfig = [p \in Threads |-> INDENTATION_UNKNOWN]
    /\ indentation_guessed = [p \in Threads |-> INDENTATION_UNKNOWN]
    /\ indent = [p \in Threads |-> INDENTATION_UNKNOWN]
    /\ scans = [p \in Threads |-> 0]
    /\ recorded = [p \in Threads |-> <<>>]
    /\ message = [p \in Threads |-> NoMessage]
    /\ calls = [p \in Threads |-> 0]
    /\ fresh = TRUE
    /\ repeated = [p \in Threads |-> FALSE]
    /\ previous = [p \in Threads |-> Outcome(p)]

\* ----------------------------------------------------------------- actions
\* run, line 51: a new call starts and resets the sources of the view.
Run(p) ==
    /\ pc[p] = "idle"
    /\ TotalCalls < MaxCalls
    /\ ASI_result_sources' = reset_ASI_result_sources(ASI_result_sources)
    /\ pc' = [pc EXCEPT ![p] = "editorconfig"]
    /\ read_sources' = [read_sources EXCEPT ![p] = <<>>]
    /\ indentation_editorconfig' = [indentation_editorconfig EXCEPT ![p] = INDENTATION_UNKNOWN]
    /\ indentation_guessed' = [indentation_guessed EXCEPT ![p] = INDENTATION_UNKNOWN]
    /\ indent' = [indent EXCEPT ![p] = INDENTATION_UNKNOWN]
    /\ scans' = [scans EXCEPT ![p] = 0]
    /\ recorded' = [recorded EXCEPT ![p] = <<>>]
    /\ message' = [message EXCEPT ![p] = NoMessage]
    /\ calls' = [calls EXCEPT ![p] = @ + 1]
    /\ repeated' = [repeated EXCEPT ![p] = fresh /\ calls[p] > 0]
    /\ previous' = [previous EXCEPT ![p] = Outcome(p)]
    /\ fresh' = TRUE
    /\ UNCHANGED <<env, translate_tabs_to_spaces, tab_size>>

\* get_indentation_for_view, lines 111-114: the .editorconfig is consulted;
\* when it says anything, add_ASI_result_sources_for_view reads the sources.
GetIndentationFromEditorconfig(p) ==
    /\ pc[p] = "editorconfig"
    /\ LET found == get_indentation_from_editorconfig(file_name, editorconfig_outcome)
       IN  /\ indentation_editorconfig' = [indentation_editorconfig EXCEPT ![p] = found]
           /\ IF found # INDENTATION_UNKNOWN
              THEN /\ read_sources' = [read_sources EXCEPT ![p] = ASI_result_sources]
                   /\ pc' = [pc EXCEPT ![p] = "add_editorconfig"]
              ELSE /\ pc' = [pc EXCEPT ![p] = "guess"]
                   /\ UNCHANGED read_sources
    /\ UNCHANGED <<env, view_settings, indentation_guessed, indent, scans, recorded,
                   message, calls, fresh, repeated, previous>>

\* get_indentation_for_view, lines 114-121: the label is written, and a fully
\* specified .editorconfig is returned at once.
AddEditorconfigSource(p) ==
    /\ pc[p] = "add_editorconfig"
    /\ ASI_result_sources' = add_ASI_result_sources(read_sources[p], <<".editorconfig">>)
    /\ recorded' = [recorded EXCEPT ![p] = @ \o <<".editorconfig">>]
    /\ IF FullySpecified(indentation_editorconfig[p])
       THEN /\ indent' = [indent EXCEPT ![p] = indentation_editorconfig[p]]
            /\ pc' = [pc EXCEPT ![p] = "special"]
       ELSE /\ pc' = [pc EXCEPT ![p] = "guess"]
            /\ UNCHANGED indent
    /\ UNCHANGED <<env, translate_tabs_to_spaces, tab_size, read_sources,
                   indentation_editorconfig, indentation_guessed, scans, message,
                   calls, fresh, repeated, previous>>

\* get_indentation_for_view, lines 123-126: the sample is read and classified,
\* and add_ASI_result_sources_for_view reads the sources.
GuessIndentation(p) ==
    /\ pc[p] = "guess"
    /\ scans' = [scans EXCEPT ![p] = @ + 1]
    /\ indentation_guessed' =
           [indentation_guessed EXCEPT ![p] = guess_indentation_from_string(finder_result)]
    /\ read_sources' = [read_sources EXCEPT ![p] = ASI_result_sources]
    /\ pc' = [pc EXCEPT ![p] = "add_guessing"]
    /\ UNCHANGED <<env, view_settings, indentation_editorconfig, indent, recorded,
                   message, calls, fresh, repeated, previous>>

\* get_indentation_for_view, lines 126-128: the label is written and the
\* merged indentation returned.
AddGuessingSource(p) ==
    /\ pc[p] = "add_guessing"
    /\ ASI_result_sources' = add_ASI_result_sources(read_sources[p], <<"guessing">>)
    /\ recorded' = [recorded EXCEPT ![p] = @ \o <<"guessing">>]
    /\ indent' = [indent EXCEPT ![p] =
           merge_indentation_tuples(indentation_editorconfig[p], indentation_guessed[p])]
    /\ pc' = [pc EXCEPT ![p] = "special"]
    /\ UNCHANGED <<env, translate_tabs_to_spaces, tab_size, read_sources,
                   indentation_editorconfig, indentation_guessed, scans, message,
                   calls, fresh, repeated, previous>>

\* special_indentation_cases, lines 86-91, and for other syntaxes the test
\* of run, line 60: a makefile has add_ASI_result_sources_for_view read the
\* sources; otherwise run goes on to the default or to the indentation found.
SpecialIndentationCases(p) ==
    /\ pc[p] = "special"
    /\ IF is_makefile
       THEN /\ read_sources' = [read_sources EXCEPT ![p] = ASI_result_sources]
            /\ pc' = [pc EXCEPT ![p] = "add_special"]
       ELSE /\ pc' = [pc EXCEPT ![p] = IF Undetermined(indent[p]) THEN "default" ELSE "use"]
            /\ UNCHANGED read_sources
    /\ UNCHANGED <<env, view_settings, indentation_editorconfig, indentation_guessed,
                   indent, scans, recorded, message, calls, fresh, repeated, previous>>

\* special_indentation_cases, line 91: the label "special" is written.
AddSpecialSource(p) ==
    /\ pc[p] = "add_special"
    /\ ASI_result_sources' = add_ASI_result_sources(read_sources[p], <<"special">>)
    /\ recorded' = [recorded EXCEPT ![p] = @ \o <<"special">>]
    /\ pc' = [pc EXCEPT ![p] = "use_special"]
    /\ UNCHANGED <<env, translate_tabs_to_spaces, tab_size, read_sources,
                   indentation_editorconfig, indentation_guessed, indent, scans,
                   message, calls, fresh, repeated, previous>>

\* use_indentation_tab: the view is set to tabs of the given size and the
\* status message names the sources read from the view.
use_indentation_tab(p, indent_tab) ==
    /\ translate_tabs_to_spaces' = FALSE
    /\ tab_size' = indent_tab
    /\ message' = [message EXCEPT ![p] = MessageBy(TabChars, indent_tab, ASI_result_sources)]

\* use_indentation_space: the same with spaces.
use_indentation_space(p, indent_space) ==
    /\ translate_tabs_to_spaces' = TRUE
    /\ tab_size' = indent_space
    /\ message' = [message EXCEPT ![p] = MessageBy(SpaceChars, indent_space, ASI_result_sources)]

\* special_indentation_cases, lines 92-94: a makefile is set to tabs.
UseSpecial(p) ==
    /\ pc[p] = "use_special"
    /\ use_indentation_tab(p, SpecialIndentSize(indent[p], default_indentation))
    /\ pc' = [pc EXCEPT ![p] = "idle"]
    /\ UNCHANGED <<env, ASI_result_sources, read_sources, indentation_editorconfig,
                   indentation_guessed, indent, scans, recorded, calls, fresh,
                   repeated, previous>>

\* run, lines 65-73: the indentation found is applied.
UseIndentation(p) ==
    /\ pc[p] = "use"
    /\ IF indent[p].type = "tab"
       THEN use_indentation_tab(p, indent[p].size)
       ELSE IF indent[p].type = "space"
       THEN use_indentation_space(p, indent[p].size)
       ELSE UNCHANGED <<translate_tabs_to_spaces, tab_size, message>>
    /\ pc' = [pc EXCEPT ![p] = "idle"]
    /\ UNCHANGED <<env, ASI_result_sources, read_sources, indentation_editorconfig,
                   indentation_guessed, indent, scans, recorded, calls, fresh,
                   repeated, previous>>

\* run, line 61: the sources are reset before the default is used.
ResetForDefault(p) ==
    /\ pc[p] = "default"
    /\ ASI_result_sources' = reset_ASI_result_sources(ASI_result_sources)
    /\ recorded' = [recorded EXCEPT ![p] = <<>>]
    /\ pc' = [pc EXCEPT ![p] = "use_default"]
    /\ UNCHANGED <<env, translate_tabs_to_spaces, tab_size, read_sources,
                   indentation_editorconfig, indentation_guessed, indent, scans,
                   message, calls, fresh, repeated, previous>>

\* use_indentation_default: the default is applied when its type starts with
\* "tab" or "space" (the messages of those calls are not shown), and the
\* status message says "default".
UseIndentationDefault(p) ==
    /\ pc[p] = "use_default"
    /\ LET indent_type == Lower(default_indentation[1])
           indent_size == default_indentation[2]
       IN  /\ IF StartsWith(indent_type, TabChars)
              THEN /\ translate_tabs_to_spaces' = FALSE
                   /\ tab_size' = indent_size
              ELSE IF StartsWith(indent_type, SpaceChars)
              THEN /\ translate_tabs_to_spaces' = TRUE
                   /\ tab_size' = indent_size
              ELSE UNCHANGED <<translate_tabs_to_spaces, tab_size>>
           /\ message' = [message EXCEPT ![p] = MessageDefault(indent_type, indent_size)]
    /\ pc' = [pc EXCEPT ![p] = "idle"]
    /\ UNCHANGED <<env, ASI_result_sources, read_sources, indentation_editorconfig,
                   indentation_guessed, indent, scans, recorded, calls, fresh,
                   repeated, previous>>

\* The buffer is edited between two calls: IndentFinder will print
\* something else for the new sample.
ModifyBuffer ==
    /\ \A p \in Threads : pc[p] = "idle"
    /\ \E r \in FinderResults \ {finder_result} : finder_result' = r
    /\ fresh' = FALSE
    /\ UNCHANGED <<file_name, editorconfig_outcome, is_makefile, default_indentation,
                   view_settings, pc, locals, calls, repeated, previous>>

\* The syntax of the view is changed between two calls.
SetSyntax ==
    /\ \A p \in Threads : pc[p] = "idle"
    /\ is_makefile' = ~is_makefile
    /\ fresh' = FALSE
    /\ UNCHANGED <<file_name, editorconfig_outcome, finder_result, default_indentation,
                   view_settings, pc, locals, calls, repeated, previous>>

Step(p) ==
    \/ Run(p)
    \/ GetIndentationFromEditorconfig(p)
    \/ AddEditorconfigSource(p)
    \/ GuessIndentation(p)
    \/ AddGuessingSource(p)
    \/ SpecialIndentationCases(p)
    \/ AddSpecialSource(p)
    \/ UseSpecial(p)
    \/ UseIndentation(p)
    \/ ResetForDefault(p)
    \/ UseIndentationDefault(p)

\* The commands of one thread, one after the other, with the buffer and the
\* syntax changing in between.
Next ==
    \/ \E p \in SingleThread : Step(p)
    \/ ModifyBuffer
    \/ SetSyntax

Spec == Init /\ [][Next]_vars

\* One command of the main thread and one of the async thread, interleaved.
NextThreads ==
    \E p \in Threads :
        \/ calls[p] = 0 /\ Run(p)
        \/ GetIndentationFromEditorconfig(p)
        \/ AddEditorconfigSource(p)
        \/ GuessIndentation(p)
        \/ AddGuessingSource(p)
        \/ SpecialIndentationCases(p)
        \/ AddSpecialSource(p)
        \/ UseSpecial(p)
        \/ UseIndentation(p)
        \/ ResetForDefault(p)
        \/ UseIndentationDefault(p)

SpecThreads == Init /\ [][NextThreads]_vars

\* ------------------------------------------------------------------ claims
\* The state predicates below are about the commands of thread 1 under Spec,
\* where no other thread touches the view.

\* The current call has returned and its inputs are still what it read.
Returned == pc[1] = "idle" /\ calls[1] > 0 /\ fresh

\* get_indentation_for_view of the current call has returned.
Resolved ==
    \/ pc[1] \in {"special", "add_special", "use_special", "use", "default", "use_default"}
    \/ Returned

\* What the .editorconfig of the file yields, and the verdict on the sample.
Config == get_indentation_from_editorconfig(file_name, editorconfig_outcome)

ConfigSizeText == editorconfig_outcome.indent_size

Verdict == guess_indentation_from_string(finder_result)

\* The view is set to the given type and size.
Applied(type, size) ==
    /\ translate_tabs_to_spaces = (type = "space")
    /\ tab_size = size

ConfigTypeKnown == Config.type \in {"tab", "space"}

ConfigSizeKnown == Config.size # -1

\* C1, as stated: every call on a file whose .editorconfig yields a known
\* type and a known size ends with exactly that type and size applied, with
\* ".editorconfig" as the only recorded source and without a scan.
C1_ConfigAlwaysWins ==
    (Returned /\ ConfigTypeKnown /\ ConfigSizeKnown)
        => /\ Applied(Config.type, Config.size)
           /\ ASI_result_sources = <<".editorconfig">>
           /\ scans[1] = 0

\* C1, amended: for such a file the sample is never scanned and
\* get_indentation_for_view returns exactly the config's type and size with
\* ".editorconfig" as the only label recorded; run applies that type and
\* size, with that single source, when the view is no makefile and the size
\* is positive.
C1_ConfigShortCircuits ==
    /\ (ConfigTypeKnown /\ ConfigSizeKnown /\ fresh /\ calls[1] > 0) => scans[1] = 0
    /\ (Resolved /\ ConfigTypeKnown /\ ConfigSizeKnown) => indent[1] = Config
    /\ (pc[1] = "special" /\ ConfigTypeKnown /\ ConfigSizeKnown)
           => ASI_result_sources = <<".editorconfig">>
    /\ (Returned /\ ConfigTypeKnown /\ Config.size > 0 /\ ~is_makefile)
           => /\ Applied(Config.type, Config.size)
              /\ ASI_result_sources = <<".editorconfig">>
              /\ message[1].by = <<".editorconfig">>
              /\ message[1].size = Config.size

\* A file with "tab" and the largest size in its .editorconfig, whose sample
\* says space 1, has been set to that tab size.
C1_Witness ==
    /\ Returned
    /\ Config = Indentation("tab", MaxWidth)
    /\ Verdict = Indentation("space", 1)
    /\ ~is_makefile
    /\ Applied("tab", MaxWidth)
    /\ ASI_result_sources = <<".editorconfig">>

\* C2: when the .editorconfig yields a type and no size, the indentation
\* get_indentation_for_view returns keeps the config's type and takes its
\* size from the verdict on the sample, the sources are ".editorconfig" then
\* "guessing", and run applies exactly that when the size is positive and the
\* view is no makefile.
C2_PartialConfigMerged ==
    /\ (Resolved /\ ConfigTypeKnown /\ ~ConfigSizeKnown)
           => /\ indent[1].type = Config.type
              /\ indent[1].size = Verdict.size
              /\ scans[1] = 1
    /\ (pc[1] = "special" /\ ConfigTypeKnown /\ ~ConfigSizeKnown)
           => ASI_result_sources = <<".editorconfig", "guessing">>
    /\ (Returned /\ ConfigTypeKnown /\ ~ConfigSizeKnown /\ Verdict.size > 0 /\ ~is_makefile)
           => /\ Applied(Config.type, Verdict.size)
              /\ ASI_result_sources = <<".editorconfig", "guessing">>
              /\ message[1].by = <<".editorconfig", "guessing">>

\* A file with only "tab" in its .editorconfig, whose sample says space 2,
\* has been set to tabs of size 2.
C2_Witness ==
    /\ Returned
    /\ Config = Indentation("tab", -1)
    /\ Verdict = Indentation("space", 2)
    /\ ~is_makefile
    /\ Applied("tab", 2)
    /\ ASI_result_sources = <<".editorconfig", "guessing">>

\* C3, as stated: a file whose .editorconfig has a positive indent_size and
\* no recognized indent_style has ".editorconfig" among its sources and the
\* config's size applied, with only the type taken from the verdict.
C3_SizeOnlyConfigKept ==
    (/\ Returned
     /\ file_name # ""
     /\ ~editorconfig_outcome.error
     /\ editorconfig_outcome.indent_style \notin {"tab", "space"}
     /\ IsIntText(ConfigSizeText)
     /\ IntOfStr(ConfigSizeText) > 0
     /\ Verdict.type # "unknown"
     /\ ~is_makefile)
        => /\ Applied(Verdict.type, IntOfStr(ConfigSizeText))
           /\ ASI_result_sources = <<".editorconfig", "guessing">>

\* C4, as stated: a makefile is set to tabs of the size otherwise determined
\* (the default size when none was), with "special" as its only source and
\* no default substitution.
C4_SpecialSoleSource ==
    (Returned /\ is_makefile)
        => /\ Applied("tab", IF indent[1].size >= 0 THEN indent[1].size
                             ELSE default_indentation[2])
           /\ ASI_result_sources = <<"special">>
           /\ message[1].text = "by"

\* The default setting applied to the view, when its type is a valid one.
DefaultApplied ==
    LET type == Lower(default_indentation[1])
    IN  /\ StartsWith(type, TabChars) => Applied("tab", default_indentation[2])
        /\ StartsWith(type, SpaceChars) => Applied("space", default_indentation[2])

\* C5: when the view is no makefile and the merged indentation has an
\* unknown type or a size <= 0, the default setting is applied, the status
\* message says "default", and no source label recorded earlier is left.
C5_DefaultFallback ==
    (Returned /\ ~is_makefile /\ (indent[1].type = "unknown" \/ indent[1].size <= 0))
        => /\ DefaultApplied
           /\ message[1] = MessageDefault(Lower(default_indentation[1]), default_indentation[2])
           /\ ASI_result_sources = <<>>

\* A file with only "tab" in its .editorconfig and a sample without verdict
\* has been set to the default, spaces of size 8, with its labels discarded.
C5_Witness ==
    /\ Returned
    /\ Config = Indentation("tab", -1)
    /\ Verdict = INDENTATION_UNKNOWN
    /\ scans[1] = 1
    /\ ~is_makefile
    /\ default_indentation = <<SpaceChars, 8>>
    /\ Applied("space", 8)
    /\ message[1].text = "default"
    /\ ASI_result_sources = <<>>

\* C6, as stated: with a recognized indent_style and an indent_size that is
\* no positive integer, the sample is scanned and the size is the verdict's
\* when the verdict has one.
C6_NonPositiveSizeUnknown ==
    (/\ Resolved
     /\ file_name # ""
     /\ ~editorconfig_outcome.error
     /\ editorconfig_outcome.indent_style \in {"tab", "space"}
     /\ ~(IsIntText(ConfigSizeText) /\ IntOfStr(ConfigSizeText) > 0))
        => /\ scans[1] = 1
           /\ Verdict.size # -1 => indent[1].size = Verdict.size

DefaultValid ==
    /\ \/ StartsWith(Lower(default_indentation[1]), TabChars)
       \/ StartsWith(Lower(default_indentation[1]), SpaceChars)
    /\ default_indentation[2] > 0

\* C7, as stated: with a valid default setting every call leaves the view
\* with a tab_size greater than 0.
C7_TabSizePositive ==
    (pc[1] = "idle" /\ calls[1] > 0 /\ DefaultValid) => tab_size > 0

\* C8: a call with the inputs of the call before it leaves the same view
\* settings, the same sources and the same status message as that call.
C8_Idempotent ==
    (pc[1] = "idle" /\ repeated[1]) => Outcome(1) = previous[1]

\* A third call, repeating the second one after the buffer was edited, has
\* returned with two sources.
C8_Witness ==
    /\ pc[1] = "idle"
    /\ repeated[1]
    /\ calls[1] = 3
    /\ ASI_result_sources = <<".editorconfig", "guessing">>
    /\ previous[1].ASI_result_sources = <<".editorconfig", "guessing">>

\* C9, as stated: a mixed verdict is guessed as tabs of the reported tab width.
C9_MixedIsTab ==
    (scans[1] > 0 /\ fresh /\ finder_result[1] = "mixed")
        => indentation_guessed[1] = Indentation("tab", IntOfStr(finder_result[3]))

\* C10, as stated: with the calls of two threads interleaved, the sources in
\* the status message of each call are the labels that call recorded.
C10_InterleavedSources ==
    \A p \in Threads :
        (pc[p] = "idle" /\ calls[p] > 0 /\ message[p].text = "by")
            => message[p].by = recorded[p]

====
